---- MODULE Spec2Model ----
(***************************************************************************)
(* Minesweeper engine of Saper.py: the Board's minefield generation, the   *)
(* Tile links, the in-place value calculation and the click handlers of    *)
(* the Tiles (left_click / right_click with the _uncover and _uncover_all  *)
(* recursions).  Rendering (icons, tkinter widgets) is left out: switch()  *)
(* is modelled only as the count of calls per Tile.                        *)
(***************************************************************************)
EXTENDS Integers, FiniteSets, Sequences, TLC

\* Bounds of the model: cells of a board (x * y), number of mines, handled
\* clicks.
MaxTiles == 9
MaxZ == 2
MaxClicks == 3
\* Number of mines asked for when only the construction is explored.
MaxGenZ == 4
\* Boards without mines: cells of a board, handled clicks.
MaxZeroTiles == 15
MaxZeroClicks == 1
\* Larger boards with few mines: cells of a board, mines, handled clicks.
MaxBigTiles == 15
MaxBigZ == 1
MaxBigClicks == 1
\* Callers of the Minesweeper object: values given to x, y and z, calls made.
MaxScriptSide == 2
MaxCalls == 6

VARIABLES
    pc,          \* position of the program: "none", "generate", "play", "error"
    x, y, z,     \* Board.x, Board.y, Board.z
    j,           \* loop counter of _generate_minefield
    minefield,   \* Board.minefield, 0 (empty) or 1 (mine) per cell
    state,       \* Tile.state
    tmp_calc,    \* Tile.tmp_calc
    final_calc,  \* Tile.final_calc
    cov,         \* Tile.cov
    flagged,     \* Tile.flagged
    triggered,   \* Tile.triggered
    marks,       \* calls of switch(self.state) per Tile in the handler that ran last
    last,        \* the handler that ran last and the Tile it ran on
    covered_before, \* number of Tiles with cov = True when that handler started
    clicks,      \* number of handled click events
    session      \* the Minesweeper object: its _x, _y, _z, _debug and the calls made on it

vars == <<pc, x, y, z, j, minefield, state, tmp_calc, final_calc,
          cov, flagged, triggered, marks, last, covered_before, clicks,
                   session>>

\* The cells of the board: board[i][j] for i in range(x), j in range(y).
Tiles == (0 .. x - 1) \X (0 .. y - 1)

\* The value of a link attribute that was never set.
None == <<-1, -1>>

----------------------------------------------------------------------------
\* Board._link_tiles: the eight link attributes of Tile t = board[i][j].

\* board[i][j + 1].left_tile = board[i][j], j in range(y - 1)
left_tile(t) == IF t[2] >= 1 THEN <<t[1], t[2] - 1>> ELSE None

\* board[i][j].right_tile = board[i][j + 1], j in range(y - 1)
right_tile(t) == IF t[2] <= y - 2 THEN <<t[1], t[2] + 1>> ELSE None

\* board[i + 1][j].top_tile = board[i][j], i in range(x - 1)
top_tile(t) == IF t[1] >= 1 THEN <<t[1] - 1, t[2]>> ELSE None

\* board[i][j].bottom_tile = board[i + 1][j], i in range(x - 1)
bottom_tile(t) == IF t[1] <= x - 2 THEN <<t[1] + 1, t[2]>> ELSE None

\* board[i + 1][j + 1].top_left_tile = board[i][j], i in range(x-1), j in range(y-1)
top_left_tile(t) ==
    IF t[1] >= 1 /\ t[2] >= 1 THEN <<t[1] - 1, t[2] - 1>> ELSE None

\* board[i][j].bottom_right_tile = board[i + 1][j + 1], i in range(x-1), j in range(y-1)
bottom_right_tile(t) ==
    IF t[1] <= x - 2 /\ t[2] <= y - 2 THEN <<t[1] + 1, t[2] + 1>> ELSE None

\* board[i][j].bottom_left_tile = board[i - 1][j + 1], i in range(1, x), j in range(y-1)
bottom_left_tile(t) ==
    IF t[1] >= 1 /\ t[2] <= y - 2 THEN <<t[1] - 1, t[2] + 1>> ELSE None

\* board[i - 1][j + 1].top_right_tile = board[i][j], i in range(1, x), j in range(y-1)
top_right_tile(t) ==
    IF t[1] <= x - 2 /\ t[2] >= 1 THEN <<t[1] + 1, t[2] - 1>> ELSE None

----------------------------------------------------------------------------
\* Tile._value and the two recursive passes of Tile.calculate_values.
\* c is the record of the Tile fields the passes read and write:
\* [state, tmp_calc, final_calc], each a function over Tiles, and calc_log,
\* the sequence of the assignments to state made so far: the pass, the Tile,
\* the state it held before, and whether _value read a linked Tile whose
\* final_calc already was True.

\* Variant: without the branch for state 19, a mine whose transitional value
\* is already set is not counted.
neighbour_value_no19(c, n) ==
    IF n = None THEN 0
    ELSE IF c.state[n] \in {0, 1} THEN c.state[n]
    ELSE 0

\* What one neighbour adds to value: its state when that is still 0 or 1,
\* 1 when it already holds the transitional value of a mine (19), else 0.
neighbour_value(c, n) ==
    IF n = None THEN 0
    ELSE IF c.state[n] \in {0, 1} THEN c.state[n]
    ELSE IF c.state[n] = 19 THEN 1
    ELSE 0

_value(c, t) ==
    IF c.state[t] = 1 THEN 9 + 10
    ELSE neighbour_value(c, top_tile(t))
         + neighbour_value(c, bottom_tile(t))
         + neighbour_value(c, left_tile(t))
         + neighbour_value(c, right_tile(t))
         + neighbour_value(c, top_left_tile(t))
         + neighbour_value(c, top_right_tile(t))
         + neighbour_value(c, bottom_left_tile(t))
         + neighbour_value(c, bottom_right_tile(t))
         + 10

\* The Tiles linked to Tile t.
Links(t) ==
    {top_tile(t), bottom_tile(t), left_tile(t), right_tile(t),
     top_left_tile(t), top_right_tile(t), bottom_left_tile(t),
     bottom_right_tile(t)} \ {None}

tmp_event(c, t) ==
    [op |-> "tmp", t |-> t, old |-> c.state[t],
     read_final |-> c.state[t] # 1 /\ \E n \in Links(t) : c.final_calc[n]]

final_event(c, t) ==
    [op |-> "final", t |-> t, old |-> c.state[t], read_final |-> FALSE]

RECURSIVE tmp_value_calc(_, _)
RECURSIVE final_value_calc(_, _)

\* Variant: the final value is set at the end of tmp_value_calc, when the
\* calls for the four neighbours have returned.
tmp_value_calc_then_final(c, t) ==
    IF t = None \/ c.tmp_calc[t] THEN c
    ELSE LET c0 == [c EXCEPT !.state[t] = _value(c, t), !.tmp_calc[t] = TRUE,
                             !.calc_log = Append(@, tmp_event(c, t))]
             c1 == tmp_value_calc(c0, top_tile(t))
             c2 == tmp_value_calc(c1, bottom_tile(t))
             c3 == tmp_value_calc(c2, left_tile(t))
             c4 == tmp_value_calc(c3, right_tile(t))
         IN  [c4 EXCEPT !.state[t] = @ - 10, !.final_calc[t] = TRUE,
                        !.calc_log = Append(@, final_event(c4, t))]

tmp_value_calc(c, t) ==
    IF t = None \/ c.tmp_calc[t] THEN c
    ELSE LET c0 == [c EXCEPT !.state[t] = _value(c, t), !.tmp_calc[t] = TRUE,
                             !.calc_log = Append(@, tmp_event(c, t))]
             c1 == tmp_value_calc(c0, top_tile(t))
             c2 == tmp_value_calc(c1, bottom_tile(t))
             c3 == tmp_value_calc(c2, left_tile(t))
         IN  tmp_value_calc(c3, right_tile(t))

final_value_calc(c, t) ==
    IF t = None \/ c.final_calc[t] THEN c
    ELSE LET c0 == [c EXCEPT !.state[t] = @ - 10, !.final_calc[t] = TRUE,
                             !.calc_log = Append(@, final_event(c, t))]
             c1 == final_value_calc(c0, top_tile(t))
             c2 == final_value_calc(c1, bottom_tile(t))
             c3 == final_value_calc(c2, left_tile(t))
         IN  final_value_calc(c3, right_tile(t))

calculate_values(c, t) == final_value_calc(tmp_value_calc(c, t), t)

----------------------------------------------------------------------------
\* The recursions of the click handlers.  b is the record of the Tile fields
\* they write: [cov, triggered, marks], each a function over Tiles.

\* self.switch(self.state); self.cov = False
switch(b, t) == [b EXCEPT !.cov[t] = FALSE, !.marks[t] = @ + 1]

\* Variant: cov as the visited marker (the docstring's "Partial uncover" BUG).
RECURSIVE _uncover_all_cov(_, _)
_uncover_all_cov(b, t) ==
    IF t = None THEN b
    ELSE IF ~b.cov[t] THEN b
    ELSE LET b0 == [switch(b, t) EXCEPT !.triggered[t] = TRUE]
             b1 == _uncover_all_cov(b0, top_tile(t))
             b2 == _uncover_all_cov(b1, bottom_tile(t))
             b3 == _uncover_all_cov(b2, left_tile(t))
         IN  _uncover_all_cov(b3, right_tile(t))

\* Variant: "self.cov = False" left out, the Tiles are only triggered.
RECURSIVE _uncover_all_no_cov(_, _)
_uncover_all_no_cov(b, t) ==
    IF t = None THEN b
    ELSE IF b.triggered[t] THEN b
    ELSE LET b0 == [b EXCEPT !.triggered[t] = TRUE, !.marks[t] = @ + 1]
             b1 == _uncover_all_no_cov(b0, top_tile(t))
             b2 == _uncover_all_no_cov(b1, bottom_tile(t))
             b3 == _uncover_all_no_cov(b2, left_tile(t))
         IN  _uncover_all_no_cov(b3, right_tile(t))

\* Variant: without the calls for the four neighbours, only the clicked
\* Tile is uncovered and triggered.
_uncover_all_single(b, t) ==
    IF t = None \/ b.triggered[t] THEN b
    ELSE [switch(b, t) EXCEPT !.triggered[t] = TRUE]

RECURSIVE _uncover_all(_, _)
_uncover_all(b, t) ==
    IF t = None \/ b.triggered[t] THEN b
    ELSE LET b0 == [switch(b, t) EXCEPT !.triggered[t] = TRUE]
             b1 == _uncover_all(b0, top_tile(t))
             b2 == _uncover_all(b1, bottom_tile(t))
             b3 == _uncover_all(b2, left_tile(t))
         IN  _uncover_all(b3, right_tile(t))

\* Variant: a flood over every covered neighbour, whatever the states.
RECURSIVE _uncover_flood(_, _)
_uncover_flood(b, t) ==
    IF t = None THEN b
    ELSE IF ~b.cov[t] THEN b
    ELSE LET b0 == switch(b, t)
             b1 == _uncover_flood(b0, top_tile(t))
             b2 == _uncover_flood(b1, bottom_tile(t))
             b3 == _uncover_flood(b2, left_tile(t))
         IN  _uncover_flood(b3, right_tile(t))

RECURSIVE _uncover(_, _)
\* One "# xxx_tile" block of _uncover: recurse into a zero neighbour, switch a
\* numbered neighbour directly, leave a mine alone.
uncover_neighbour(b, n) ==
    CASE n = None -> b
      [] n # None /\ state[n] = 0 -> _uncover(b, n)
      [] n # None /\ state[n] \in 1 .. 8 -> switch(b, n)
      [] OTHER -> b

\* Variant: without the "# right_tile" block.
_uncover_no_right(b, t) ==
    IF ~b.cov[t] THEN b
    ELSE LET b0 == switch(b, t)
         IN  IF state[t] # 0 THEN b0
             ELSE LET b1 == uncover_neighbour(b0, top_tile(t))
                      b2 == uncover_neighbour(b1, bottom_tile(t))
                  IN  uncover_neighbour(b2, left_tile(t))

\* Variant: without "if self.state == 0:", a numbered Tile cascades too.
_uncover_any_state(b, t) ==
    IF ~b.cov[t] THEN b
    ELSE LET b0 == switch(b, t)
             b1 == uncover_neighbour(b0, top_tile(t))
             b2 == uncover_neighbour(b1, bottom_tile(t))
             b3 == uncover_neighbour(b2, left_tile(t))
         IN  uncover_neighbour(b3, right_tile(t))

_uncover(b, t) ==
    CASE ~b.cov[t] -> b
      [] b.cov[t] /\ state[t] # 0 -> switch(b, t)
      [] OTHER ->
           LET b1 == uncover_neighbour(switch(b, t), top_tile(t))
               b2 == uncover_neighbour(b1, bottom_tile(t))
               b3 == uncover_neighbour(b2, left_tile(t))
           IN  uncover_neighbour(b3, right_tile(t))

----------------------------------------------------------------------------
\* The state machine.

NoMarks == [t \in Tiles |-> 0]

\* The value of an attribute of the Minesweeper object that was never set.
Unset == -1

\* Minesweeper.__init__ sets parent only: _x, _y, _z and _debug do not exist,
\* no method has been called and no exception raised.
Minesweeper_init ==
    [x |-> Unset, y |-> Unset, z |-> Unset, debug |-> "unset",
     ncalls |-> 0, last_call |-> "none", raised |-> "none"]

\* The cells randrange(1, self.x), randrange(1, self.y) can return.
SampleCells == (1 .. x - 1) \X (1 .. y - 1)

\* Board.__init__ up to the start of the while loop of _generate_minefield,
\* with x, y, z set: the minefield is empty and no Tile exists yet.
InitFields ==
    /\ pc = "generate"
    /\ j = 0
    /\ minefield = [t \in Tiles |-> 0]
    /\ state = [t \in Tiles |-> 0]
    /\ tmp_calc = [t \in Tiles |-> FALSE]
    /\ final_calc = [t \in Tiles |-> FALSE]
    /\ cov = [t \in Tiles |-> TRUE]
    /\ flagged = [t \in Tiles |-> FALSE]
    /\ triggered = [t \in Tiles |-> FALSE]
    /\ marks = NoMarks
    /\ last = [op |-> "none", t |-> None]
    /\ covered_before = x * y
    /\ clicks = 0
    /\ session = Minesweeper_init

Init ==
    /\ x \in 1 .. MaxTiles
    /\ y \in 1 .. MaxTiles
    /\ x * y <= MaxTiles
    /\ z \in 0 .. MaxZ
    /\ InitFields

\* The same for the construction alone, with mine counts up to MaxGenZ.
InitGen ==
    /\ x \in 1 .. MaxTiles
    /\ y \in 1 .. MaxTiles
    /\ x * y <= MaxTiles
    /\ z \in 0 .. MaxGenZ
    /\ InitFields

\* Variant: without "if self.minefield[a][b] == 0", a collision counts as a
\* placed mine.
_generate_minefield_no_check ==
    /\ pc = "generate"
    /\ j < z
    /\ \E c \in SampleCells :
          /\ minefield' = [minefield EXCEPT ![c] = 1]
          /\ j' = j + 1
    /\ UNCHANGED <<pc, x, y, z, state, tmp_calc, final_calc,
                   cov, flagged, triggered, marks, last, covered_before, clicks,
                   session>>

\* One iteration of "while j < self.z" with a = randrange(1, x) and
\* b = randrange(1, y): a free cell becomes a mine, a collision changes nothing.
_generate_minefield ==
    /\ pc = "generate"
    /\ j < z
    /\ \E c \in SampleCells :
          IF minefield[c] = 0
          THEN /\ minefield' = [minefield EXCEPT ![c] = 1]
               /\ j' = j + 1
          ELSE UNCHANGED <<minefield, j>>
    /\ UNCHANGED <<pc, x, y, z, state, tmp_calc, final_calc,
                   cov, flagged, triggered, marks, last, covered_before, clicks,
                   session>>

\* randrange(1, 1) raises ValueError (empty range): Board.__init__ fails.
randrange_error ==
    /\ pc = "generate"
    /\ j < z
    /\ (x = 1 \/ y = 1)
    /\ pc' = "error"
    /\ UNCHANGED <<x, y, z, j, minefield, state, tmp_calc, final_calc,
                   cov, flagged, triggered, marks, last, covered_before, clicks,
                   session>>

\* The Tile fields _init_tiles sets: the cell's 0/1 as state, nothing
\* calculated yet.
_init_tiles ==
    [state |-> minefield,
     tmp_calc |-> [t \in Tiles |-> FALSE],
     final_calc |-> [t \in Tiles |-> FALSE],
     calc_log |-> <<>>]

\* The loop has ended: _init_tiles builds a covered Tile per cell with the
\* cell's 0/1 as state, _link_tiles links them and runs calculate_values
\* from board[0][0].
_link_tiles ==
    /\ pc = "generate"
    /\ j >= z
    /\ LET c == calculate_values(_init_tiles, <<0, 0>>)
       IN  /\ state' = c.state
           /\ tmp_calc' = c.tmp_calc
           /\ final_calc' = c.final_calc
    /\ pc' = "play"
    /\ UNCHANGED <<x, y, z, j, minefield, cov, flagged, triggered,
                   marks, last, covered_before, clicks,
                   session>>

\* Variant: a click on a Tile with cov = False uncovers the Tile's neighbours.
left_click_fields_chord(b, t) ==
    IF b.cov[t]
    THEN IF ~flagged[t]
         THEN IF state[t] = 9 THEN _uncover_all(b, t) ELSE _uncover(b, t)
         ELSE b
    ELSE LET b1 == uncover_neighbour(b, top_tile(t))
             b2 == uncover_neighbour(b1, bottom_tile(t))
             b3 == uncover_neighbour(b2, left_tile(t))
         IN  uncover_neighbour(b3, right_tile(t))

\* Variant: without the test of self.flagged.
left_click_fields_no_flag(b, t) ==
    IF b.cov[t]
    THEN IF state[t] = 9 THEN _uncover_all(b, t) ELSE _uncover(b, t)
    ELSE b

\* The Tile fields after Tile.left_click on Tile t found them as b.
left_click_fields(b, t) ==
    IF b.cov[t]
    THEN IF ~flagged[t]
         THEN IF state[t] = 9 THEN _uncover_all(b, t) ELSE _uncover(b, t)
         ELSE b
    ELSE b

\* Tile.left_click on Tile t.
left_click(t) ==
    /\ pc = "play"
    /\ clicks < MaxClicks
    /\ LET b1 == left_click_fields([cov |-> cov, triggered |-> triggered,
                                   marks |-> NoMarks], t)
       IN  /\ cov' = b1.cov
           /\ triggered' = b1.triggered
           /\ marks' = b1.marks
    /\ last' = [op |-> "left", t |-> t]
    /\ covered_before' = Cardinality({u \in Tiles : cov[u]})
    /\ clicks' = clicks + 1
    /\ UNCHANGED <<pc, x, y, z, j, minefield, state, tmp_calc, final_calc, flagged,
                   session>>

\* Variant: a covered Tile is flagged, never unflagged.
right_click_flagged_set(f, t) ==
    IF cov[t] THEN [f EXCEPT ![t] = TRUE] ELSE f

\* Variant: without the test of self.cov.
right_click_flagged_any(f, t) == [f EXCEPT ![t] = ~f[t]]

\* The flagged fields after Tile.right_click on Tile t: a covered Tile's flag
\* is flipped, a Tile with cov = False is left alone.
right_click_flagged(f, t) ==
    IF cov[t] THEN [f EXCEPT ![t] = ~f[t]] ELSE f

\* Tile.right_click on Tile t.
right_click(t) ==
    /\ pc = "play"
    /\ clicks < MaxClicks
    /\ flagged' = right_click_flagged(flagged, t)
    /\ marks' = NoMarks
    /\ last' = [op |-> "right", t |-> t]
    /\ covered_before' = Cardinality({u \in Tiles : cov[u]})
    /\ clicks' = clicks + 1
    /\ UNCHANGED <<pc, x, y, z, j, minefield, state, tmp_calc, final_calc,
                   cov, triggered, session>>

Next ==
    \/ _generate_minefield
    \/ randrange_error
    \/ _link_tiles
    \/ \E t \in Tiles : left_click(t)
    \/ \E t \in Tiles : right_click(t)

Spec == Init /\ [][Next]_vars

\* The construction of the Board alone.
NextGen ==
    \/ _generate_minefield
    \/ randrange_error
    \/ _link_tiles

SpecGen == InitGen /\ [][NextGen]_vars

\* Boards of up to MaxZeroTiles cells built with z = 0, and the first
\* MaxZeroClicks clicks on them.
InitZero ==
    /\ x \in 1 .. MaxZeroTiles
    /\ y \in 1 .. MaxZeroTiles
    /\ x * y <= MaxZeroTiles
    /\ z = 0
    /\ InitFields

NextZero ==
    \/ _link_tiles
    \/ clicks < MaxZeroClicks /\ \E t \in Tiles : left_click(t)
    \/ clicks < MaxZeroClicks /\ \E t \in Tiles : right_click(t)

SpecZero == InitZero /\ [][NextZero]_vars

\* Boards of up to MaxBigTiles cells with up to MaxBigZ mines, and the first
\* MaxBigClicks clicks on them.
InitBig ==
    /\ x \in 1 .. MaxBigTiles
    /\ y \in 1 .. MaxBigTiles
    /\ x * y <= MaxBigTiles
    /\ z \in 0 .. MaxBigZ
    /\ InitFields

NextBig ==
    \/ _generate_minefield
    \/ randrange_error
    \/ _link_tiles
    \/ clicks < MaxBigClicks /\ \E t \in Tiles : left_click(t)
    \/ clicks < MaxBigClicks /\ \E t \in Tiles : right_click(t)

SpecBig == InitBig /\ [][NextBig]_vars

----------------------------------------------------------------------------
\* The Minesweeper object and the calls made on it, as the module's
\* top-level script and any other caller can make them.

BoardVars ==
    <<pc, x, y, z, j, minefield, state, tmp_calc, final_calc,
      cov, flagged, triggered, marks, last, covered_before, clicks>>

\* game1 = Minesweeper(root): no Board exists.
InitScript ==
    /\ pc = "none"
    /\ x = 0 /\ y = 0 /\ z = 0
    /\ j = 0
    /\ minefield = [t \in Tiles |-> 0]
    /\ state = [t \in Tiles |-> 0]
    /\ tmp_calc = [t \in Tiles |-> FALSE]
    /\ final_calc = [t \in Tiles |-> FALSE]
    /\ cov = [t \in Tiles |-> TRUE]
    /\ flagged = [t \in Tiles |-> FALSE]
    /\ triggered = [t \in Tiles |-> FALSE]
    /\ marks = NoMarks
    /\ last = [op |-> "none", t |-> None]
    /\ covered_before = 0
    /\ clicks = 0
    /\ session = Minesweeper_init

\* A statement of the caller runs: no exception has ended the caller, no
\* Board.__init__ is under way.
CanCall ==
    /\ session.raised = "none"
    /\ pc \in {"none", "play"}
    /\ session.ncalls < MaxCalls

Called(name) == [session EXCEPT !.ncalls = @ + 1, !.last_call = name]

\* The setters of x, y and z: "game1.a = v", is_int is isinstance(v, int).
Minesweeper_setter(a, v, is_int) ==
    /\ CanCall
    /\ session' = IF is_int
                  THEN [Called(a) EXCEPT ![a] = v]
                  ELSE [Called(a) EXCEPT !.raised = "TypeError"]
    /\ UNCHANGED BoardVars

\* The setter of debug: "game1.debug = v", v a bool or something else.
Minesweeper_debug(v) ==
    /\ CanCall
    /\ session' = IF v \in {"True", "False"}
                  THEN [Called("debug") EXCEPT !.debug = v]
                  ELSE [Called("debug") EXCEPT !.raised = "TypeError"]
    /\ UNCHANGED BoardVars

\* Minesweeper.start: reads self.x, self.y, self.z and self.debug (an
\* AttributeError when one was never set) and enters Board.__init__.
start ==
    /\ CanCall
    /\ IF \/ Unset \in {session.x, session.y, session.z}
          \/ session.debug = "unset"
       THEN /\ session' = [Called("start") EXCEPT !.raised = "AttributeError"]
            /\ UNCHANGED BoardVars
       ELSE LET NewTiles == (0 .. session.x - 1) \X (0 .. session.y - 1)
            IN  /\ session' = Called("start")
                /\ pc' = "generate"
                /\ x' = session.x /\ y' = session.y /\ z' = session.z
                /\ j' = 0
                /\ minefield' = [t \in NewTiles |-> 0]
                /\ state' = [t \in NewTiles |-> 0]
                /\ tmp_calc' = [t \in NewTiles |-> FALSE]
                /\ final_calc' = [t \in NewTiles |-> FALSE]
                /\ cov' = [t \in NewTiles |-> TRUE]
                /\ flagged' = [t \in NewTiles |-> FALSE]
                /\ triggered' = [t \in NewTiles |-> FALSE]
                /\ marks' = [t \in NewTiles |-> 0]
                /\ last' = [op |-> "none", t |-> None]
                /\ covered_before' = session.x * session.y
                /\ clicks' = 0

\* pack, grid and destroy hand the call to self.minesweeper, which exists
\* when a call of start has returned (pc = "play"); an AttributeError
\* otherwise.
minesweeper_call(name) ==
    /\ CanCall
    /\ session' = IF pc = "play"
                  THEN Called(name)
                  ELSE [Called(name) EXCEPT !.raised = "AttributeError"]
    /\ UNCHANGED BoardVars

pack == minesweeper_call("pack")

grid == minesweeper_call("grid")

destroy == minesweeper_call("destroy")

NextScript ==
    \/ \E a \in {"x", "y", "z"}, v \in 0 .. MaxScriptSide, is_int \in BOOLEAN :
          (a = "z" \/ v >= 1) /\ Minesweeper_setter(a, v, is_int)
    \/ \E v \in {"True", "False", "other"} : Minesweeper_debug(v)
    \/ start
    \/ _generate_minefield
    \/ randrange_error
    \/ _link_tiles
    \/ pack
    \/ grid
    \/ destroy

SpecScript == InitScript /\ [][NextScript]_vars

----------------------------------------------------------------------------
\* Properties.

\* The in-bounds cells adjacent to t, by coordinates (up to 8).
Neighbours(t) ==
    {u \in Tiles : u # t /\ u[1] - t[1] \in -1 .. 1 /\ u[2] - t[2] \in -1 .. 1}

MinesAround(t) == Cardinality({u \in Neighbours(t) : minefield[u] = 1})

\* The last handler was a left click that found its Tile covered and not
\* flagged (only then does it switch the Tile).
LeftClickActed == pc = "play" /\ last.op = "left" /\ marks[last.t] > 0

NoFlags == \A u \in Tiles : ~flagged[u]

\* The step is the run of left_click on Tile t (every handler records itself
\* in last and counts in clicks).
LeftClickStep(t) == clicks' = clicks + 1 /\ last' = [op |-> "left", t |-> t]

\* C1: when the Board is constructed, a mine's state is 9 and every other
\* Tile's state is the number of mines among its in-bounds adjacent cells.
C1_ValuesCorrect ==
    pc = "play" =>
        \A t \in Tiles :
            state[t] = IF minefield[t] = 1 THEN 9 ELSE MinesAround(t)

\* A constructed 3 x 3 board with two mines, with Tiles of value 0 and 2.
C1_Witness ==
    /\ pc = "play"
    /\ x = 3 /\ y = 3 /\ z = 2
    /\ \E t, u \in Tiles : state[t] = 2 /\ state[u] = 0

\* C2: after a left click on a covered, unflagged Tile of value 0, with no
\* Tile flagged, every adjacent cell (diagonals included) of every zero Tile
\* the cascade revealed is revealed.
C2_CascadeClosed8 ==
    (LeftClickActed /\ state[last.t] = 0 /\ NoFlags) =>
        \A u \in Tiles :
            (marks[u] > 0 /\ state[u] = 0) =>
                \A n \in Neighbours(u) : ~cov[n]

\* C3: a left click on a covered, unflagged Tile that is no mine leaves the
\* cov of every mine as it was.
C3_CascadeSparesMines ==
    [][\A t \in Tiles :
          (LeftClickStep(t) /\ cov[t] /\ ~flagged[t] /\ state[t] # 9) =>
              \A u \in Tiles : state[u] = 9 => cov'[u] = cov[u]]_vars

\* A cascade from a zero Tile has revealed several Tiles and a mine is
\* still covered.
C3_Witness ==
    /\ LeftClickActed
    /\ state[last.t] = 0
    /\ \E u \in Tiles : u # last.t /\ marks[u] > 0
    /\ \E u \in Tiles : state[u] = 9 /\ cov[u]

\* C4: after a left click on a covered, unflagged mine every Tile that is
\* not flagged is revealed.
C4_MineRevealsAll ==
    (LeftClickActed /\ state[last.t] = 9) =>
        \A u \in Tiles : ~flagged[u] => ~cov[u]

\* The clicked mine was the only covered Tile of a board of 9 Tiles: it was
\* surrounded by revealed Tiles.
C4_Witness ==
    /\ LeftClickActed
    /\ state[last.t] = 9
    /\ x * y = 9
    /\ covered_before = 1
    /\ \A u \in Tiles : ~cov[u]

\* C5: after a left click on a covered, unflagged mine every flagged Tile
\* is still flagged and still covered.
C5_MineKeepsFlaggedCovered ==
    (LeftClickActed /\ state[last.t] = 9) =>
        \A u \in Tiles : flagged[u] => cov[u]

\* C6: after a left click on a covered, unflagged Tile that is no mine every
\* flagged Tile is still covered: no Tile has flagged = True and cov = False.
C6_CascadeKeepsFlaggedCovered ==
    (LeftClickActed /\ state[last.t] # 9) =>
        \A u \in Tiles : flagged[u] => cov[u]

\* is_won: every Tile that is no mine is revealed.
is_won == pc = "play" /\ \A t \in Tiles : state[t] # 9 => ~cov[t]

\* is_lost: _uncover_all has run (some Tile is triggered).
is_lost == pc = "play" /\ \E t \in Tiles : triggered[t]

\* C7 as stated: is_won and is_lost are never both true.
C7_WonLostExclusive == ~(is_won /\ is_lost)

\* C7 amended: is_lost never holds together with "every Tile that is no mine
\* is revealed and every mine is still covered".
C7_WonWithMinesCoveredExcludesLost ==
    ~(is_won /\ (\A t \in Tiles : state[t] = 9 => cov[t]) /\ is_lost)

\* A board with a mine is won by a left click: all but the mines revealed,
\* nothing triggered.
C7_Witness ==
    /\ is_won
    /\ ~is_lost
    /\ last.op = "left"
    /\ \E t \in Tiles : state[t] = 9 /\ cov[t]

\* C8: a left click on a covered, flagged Tile changes no cov, flagged,
\* triggered or state field.
C8_LeftClickOnFlaggedNoOp ==
    [][\A t \in Tiles :
          (LeftClickStep(t) /\ cov[t] /\ flagged[t]) =>
              UNCHANGED <<cov, flagged, triggered, state>>]_vars

\* The last handler was a left click on a flagged, covered mine.
C8_Witness ==
    /\ pc = "play"
    /\ last.op = "left"
    /\ cov[last.t] /\ flagged[last.t]
    /\ state[last.t] = 9

\* C9: a right click flips the flagged field of a covered Tile and changes
\* nothing else, a second right click on it restores the flags, and a right
\* click on a revealed Tile changes nothing.
C9_RightClickToggles ==
    /\ [][\A t \in Tiles :
            right_click(t) =>
                /\ flagged' = IF cov[t] THEN [flagged EXCEPT ![t] = ~flagged[t]]
                                        ELSE flagged
                /\ UNCHANGED <<cov, triggered, state>>]_vars
    /\ [](pc = "play" =>
            \A t \in Tiles :
                right_click_flagged(right_click_flagged(flagged, t), t) = flagged)

\* The last handler was a right click that took the flag off a covered Tile.
C9_Witness ==
    /\ pc = "play"
    /\ last.op = "right"
    /\ cov[last.t] /\ ~flagged[last.t]

\* C10: a Tile with cov = False keeps cov = False and keeps its flagged field
\* in every step.
C10_RevealedIsTerminal ==
    [][\A t \in Tiles :
          ~cov[t] => (~cov'[t] /\ flagged'[t] = flagged[t])]_vars

\* The last handler was a right click on a Tile revealed by an earlier one.
C10_Witness ==
    /\ pc = "play"
    /\ last.op = "right"
    /\ ~cov[last.t]

\* C11: a left click on the Tile the previous handler left-clicked, and a left
\* click on a Tile with cov = False, change no cov, flagged or triggered field.
C11_RevealIdempotent ==
    [][\A t \in Tiles :
          (LeftClickStep(t) /\ (last = [op |-> "left", t |-> t] \/ ~cov[t])) =>
              UNCHANGED <<cov, flagged, triggered>>]_vars

\* The last handler was a left click on a Tile that an earlier handler had
\* revealed, and it marked nothing.
C11_Witness ==
    /\ pc = "play"
    /\ clicks >= 2
    /\ last.op = "left"
    /\ ~cov[last.t]
    /\ \A u \in Tiles : marks[u] = 0

\* Number of cells of the minefield that hold a mine.
MineCount == Cardinality({t \in Tiles : minefield[t] = 1})

\* C12: when _generate_minefield has returned, exactly z cells of the
\* minefield are 1 and the others are 0.
C12_ExactlyZMines ==
    pc = "play" =>
        /\ MineCount = z
        /\ \A t \in Tiles : minefield[t] \in {0, 1}

\* A board built with three mines, which takes collisions to reach.
C12_Witness ==
    /\ pc = "play"
    /\ z = 3
    /\ MineCount = 3

\* C13: for 0 <= z < x * y (here on boards of at least 2 rows and 2 columns)
\* the loop never is in a state where mines remain to be placed and every
\* cell it can sample already is a mine.
C13_NeverStuck ==
    (pc = "generate" /\ x >= 2 /\ y >= 2 /\ z < x * y /\ j < z) =>
        \E c \in SampleCells : minefield[c] = 0

\* C14: with z >= x * y the construction never samples: no iteration of the
\* loop places a mine.
C14_ImpossibleCountNeverSamples ==
    z >= x * y => (j = 0 /\ MineCount = 0)

\* C15: while the loop places mines, every cell of the board, row 0 and
\* column 0 included, is a cell it can sample.
C15_SamplesEveryCell ==
    (pc = "generate" /\ 1 <= j /\ j < z) => \A t \in Tiles : t \in SampleCells

\* C16: on a board without mines and without flags, a left click that acts
\* leaves every Tile revealed, and is_won holds.
C16_ZeroBoardOneClickRevealsAll ==
    (LeftClickActed /\ z = 0 /\ NoFlags) =>
        /\ \A u \in Tiles : state[u] = 0 /\ ~cov[u]
        /\ is_won

\* A 3x5 board without mines after one left click on its centre Tile (1,2).
C16_Witness ==
    /\ LeftClickActed
    /\ x = 3 /\ y = 5 /\ z = 0
    /\ clicks = 1
    /\ last.t = <<1, 2>>
    /\ Cardinality({u \in Tiles : ~cov[u]}) = 15

\* C17: a left click on a covered, unflagged Tile with a state in 1..8 sets
\* the cov of that Tile to False and changes no other cov, flagged or
\* triggered field.
C17_NumberedRevealsOnlyItself ==
    [][\A t \in Tiles :
          (LeftClickStep(t) /\ cov[t] /\ ~flagged[t] /\ state[t] \in 1 .. 8) =>
              /\ cov' = [cov EXCEPT ![t] = FALSE]
              /\ UNCHANGED <<flagged, triggered>>]_vars

\* The last handler was a left click that revealed a numbered Tile next to
\* a Tile that still is covered and holds no mine.
C17_Witness ==
    /\ LeftClickActed
    /\ state[last.t] \in 1 .. 8
    /\ Cardinality({u \in Tiles : cov[u]}) = covered_before - 1
    /\ \E u \in Neighbours(last.t) : cov[u] /\ state[u] # 9

\* C18: in one left click no Tile is switched more than once, and the
\* switched Tiles are exactly the Tiles that were covered before the click
\* and are not covered after it.
C18_MarkedAtMostOnce ==
    (pc = "play" /\ last.op = "left") =>
        /\ \A u \in Tiles : marks[u] <= 1
        /\ Cardinality({u \in Tiles : marks[u] > 0}) =
               covered_before - Cardinality({u \in Tiles : cov[u]})

\* Sum of f over the set S.
RECURSIVE SumOver(_, _)
SumOver(f, S) ==
    IF S = {} THEN 0
    ELSE LET u == CHOOSE v \in S : TRUE
         IN  f[u] + SumOver(f, S \ {u})

\* C19: one left click switches Tiles at most x * y times.
C19_MarkingStepsBounded ==
    (pc = "play" /\ last.op = "left") => SumOver(marks, Tiles) <= x * y

\* Positions of calc_log where pass op assigned the state of Tile t.
Events(log, op, t) == {i \in DOMAIN log : log[i].op = op /\ log[i].t = t}

\* C20: in calculate_values from Tile (0,0), the transitional pass assigns
\* the state of every Tile exactly once, always to a Tile that still holds 0
\* or 1 and never after reading a linked Tile that holds a final value; all
\* these assignments come before the first one of the final pass, which
\* finds every state in 10..19 and subtracts 10 from every Tile exactly once;
\* the board's states are the result, all in 0..9.
C20_TwoPassOrderedExhaustive ==
    pc = "play" =>
        LET c == calculate_values(_init_tiles, <<0, 0>>)
            log == c.calc_log
        IN  /\ state = c.state
            /\ \A t \in Tiles : state[t] \in 0 .. 9
            /\ \A t \in Tiles : tmp_value_calc(_init_tiles, <<0, 0>>).state[t] \in 10 .. 19
            /\ Len(log) = 2 * x * y
            /\ \A t \in Tiles :
                  /\ Cardinality(Events(log, "tmp", t)) = 1
                  /\ Cardinality(Events(log, "final", t)) = 1
            /\ \A i \in DOMAIN log :
                  IF i <= x * y
                  THEN /\ log[i].op = "tmp"
                       /\ log[i].old \in {0, 1}
                       /\ ~log[i].read_final
                  ELSE /\ log[i].op = "final"
                       /\ log[i].old \in 10 .. 19

\* A 3x3 board with 3 mines whose values are calculated.
C20_Witness ==
    /\ pc = "play"
    /\ x = 3 /\ y = 3 /\ z = 3
    /\ Len(calculate_values(_init_tiles, <<0, 0>>).calc_log) = 18
    /\ \E t \in Tiles : state[t] = 3

\* The Tile of row r and column c, None when the cell is out of bounds.
Cell(r, c) == IF <<r, c>> \in Tiles THEN <<r, c>> ELSE None

\* C21: after _link_tiles each of the eight links of Tile (i, j) is the Tile
\* in the direction of its name, or None when that cell is out of bounds.
C21_LinksFollowNames ==
    pc = "play" =>
        \A t \in Tiles :
            /\ top_tile(t) = Cell(t[1] - 1, t[2])
            /\ bottom_tile(t) = Cell(t[1] + 1, t[2])
            /\ left_tile(t) = Cell(t[1], t[2] - 1)
            /\ right_tile(t) = Cell(t[1], t[2] + 1)
            /\ top_left_tile(t) = Cell(t[1] - 1, t[2] - 1)
            /\ top_right_tile(t) = Cell(t[1] - 1, t[2] + 1)
            /\ bottom_left_tile(t) = Cell(t[1] + 1, t[2] - 1)
            /\ bottom_right_tile(t) = Cell(t[1] + 1, t[2] + 1)

TopLevelScript == session.ncalls = 1 /\ session.last_call = "pack"

\* C23: in the top-level script no call on the Minesweeper object reaches an
\* attribute that was never set (no AttributeError is raised).
C23_ScriptCallsInValidOrder ==
    TopLevelScript => session.raised = "none"

====
